---- MODULE Spec2Model ----
(***************************************************************************)
(* A model of the release-pull-request action (src/src/run.ts and its git  *)
(* helpers, src/unnamed/part_000).                                         *)
(*                                                                         *)
(* Text is modelled as what it is: a string is a sequence of one-character *)
(* strings, and the regular expressions of the source are operators over   *)
(* such sequences.  A JavaScript value that may be null is a sequence of   *)
(* length 0 (null) or 1 (the value).                                       *)
(***************************************************************************)
EXTENDS Integers, Sequences, FiniteSets, TLC

(***************************************************************************)
(* Strings                                                                 *)
(***************************************************************************)

\* The characters \s matches, restricted to the ones the model's texts use.
WS == {" ", "\n", "\t"}

DigitChars == <<"0", "1", "2", "3", "4", "5", "6", "7", "8", "9">>

HexChars == <<"0", "1", "2", "3", "4", "5", "6", "7", "8", "9",
              "a", "b", "c", "d", "e", "f">>

IsDigit(c) == \E i \in 1..10 : DigitChars[i] = c

DigitVal(c) == (CHOOSE i \in 1..10 : DigitChars[i] = c) - 1

SetMin(S) == CHOOSE x \in S : \A y \in S : x <= y

SetMax(S) == CHOOSE x \in S : \A y \in S : x >= y

\* s.slice(i - 1) of the source, 1-based.
From(s, i) == SubSeq(s, i, Len(s))

\* The text p stands in s at position i.
At(s, i, p) == /\ i >= 1
               /\ i + Len(p) - 1 <= Len(s)
               /\ SubSeq(s, i, i + Len(p) - 1) = p

\* Every character of s[i..j] is whitespace (true of an empty range).
AllWs(s, i, j) == \A k \in i..j : s[k] \in WS

\* String.prototype.trim
Trim(s) ==
  LET keep == {i \in 1..Len(s) : s[i] \notin WS}
  IN  IF keep = {} THEN <<>> ELSE SubSeq(s, SetMin(keep), SetMax(keep))

\* String.prototype.split("\n")
RECURSIVE SplitLines(_)
SplitLines(s) ==
  LET nl == {i \in 1..Len(s) : s[i] = "\n"}
  IN  IF nl = {} THEN <<s>>
      ELSE <<SubSeq(s, 1, SetMin(nl) - 1)>> \o SplitLines(From(s, SetMin(nl) + 1))

\* String.prototype.includes
Includes(s, p) == \E i \in 1..Len(s) + 1 : At(s, i, p)

\* The decimal digits of a natural number.
RECURSIVE NatToStr(_)
NatToStr(n) ==
  IF n < 10 THEN <<DigitChars[n + 1]>>
  ELSE NatToStr(n \div 10) \o <<DigitChars[(n % 10) + 1]>>

\* `${n}` for an integer n.
IntToStr(n) == IF n < 0 THEN <<"-">> \o NatToStr(0 - n) ELSE NatToStr(n)

\* The value of a sequence of decimal digits.
RECURSIVE DigitsVal(_)
DigitsVal(ds) ==
  IF ds = <<>> THEN 0
  ELSE 10 * DigitsVal(SubSeq(ds, 1, Len(ds) - 1)) + DigitVal(ds[Len(ds)])

\* The longest prefix of s made of decimal digits.
DigitPrefix(s) ==
  LET stop == {i \in 1..Len(s) : ~IsDigit(s[i])}
  IN  IF stop = {} THEN s ELSE SubSeq(s, 1, SetMin(stop) - 1)

\* The longest prefix of s made of hexadecimal digits (lower case, as the
\* model's texts have no others).
HexPrefix(s) ==
  LET stop == {i \in 1..Len(s) : \A h \in 1..16 : HexChars[h] # s[i]}
  IN  IF stop = {} THEN s ELSE SubSeq(s, 1, SetMin(stop) - 1)

RECURSIVE HexVal(_)
HexVal(hs) ==
  IF hs = <<>> THEN 0
  ELSE 16 * HexVal(SubSeq(hs, 1, Len(hs) - 1))
         + ((CHOOSE h \in 1..16 : HexChars[h] = hs[Len(hs)]) - 1)

\* The digits parseInt reads from a text with no sign: after 0x the
\* hexadecimal ones, else the decimal ones.
Magnitude(body) ==
  IF At(body, 1, <<"0", "x">>)
  THEN [digits |-> HexPrefix(From(body, 3)), radix |-> 16]
  ELSE [digits |-> DigitPrefix(body), radix |-> 10]

SignedValue(negative, m) ==
  IF m.digits = <<>> THEN [nan |-> TRUE, val |-> 0]
  ELSE IF m.radix = 16
  THEN [nan |-> FALSE,
        val |-> IF negative THEN 0 - HexVal(m.digits) ELSE HexVal(m.digits)]
  ELSE [nan |-> FALSE,
        val |-> IF negative THEN 0 - DigitsVal(m.digits) ELSE DigitsVal(m.digits)]

ParseTrimmed(t) ==
  IF Len(t) > 0 /\ t[1] \in {"-", "+"}
  THEN SignedValue(t[1] = "-", Magnitude(From(t, 2)))
  ELSE SignedValue(FALSE, Magnitude(t))

\* parseInt(s) with no radix: leading whitespace is skipped, a sign is
\* accepted, a 0x prefix selects radix 16, then the longest run of digits
\* is read; no digit gives NaN.
\* The result is [nan |-> TRUE, val |-> 0] or [nan |-> FALSE, val |-> n].
ParseInt(s) == ParseTrimmed(Trim(s))

(***************************************************************************)
(* md5                                                                     *)
(***************************************************************************)

\* The characters of the model's texts, for the digest below.
Alphabet == <<" ", "\n", "\t", "-", "#", ".", ":", "@", "/", "_",
              "0", "1", "2", "3", "4", "5", "6", "7", "8", "9",
              "a", "b", "c", "d", "e", "f", "g", "h", "i", "k", "m", "n",
              "o", "p", "r", "s", "t", "u", "v", "w", "x", "N", "R", "P">>

CharCode(c) == CHOOSE i \in 1..Len(Alphabet) : Alphabet[i] = c

\* The digest is a fixed-width hexadecimal string, as md5's is: a
\* polynomial hash of the text, three hexadecimal digits wide, stands for it.
HashMod == 16 * 16 * 16

RECURSIVE HashVal(_)
HashVal(s) ==
  IF s = <<>> THEN 7
  ELSE (HashVal(SubSeq(s, 1, Len(s) - 1)) * 31 + CharCode(s[Len(s)])) % HashMod

RECURSIVE HexOf(_, _)
HexOf(n, width) ==
  IF width = 0 THEN <<>>
  ELSE HexOf(n \div 16, width - 1) \o <<HexChars[(n % 16) + 1]>>

md5(str) == HexOf(HashVal(str), 3)

(***************************************************************************)
(* The frontmatter codec                                                   *)
(***************************************************************************)

Dashes == <<"-", "-", "-">>

DraftIdKey == <<"d", "r", "a", "f", "t", "_", "i", "d", ":">>

ChecksumKey == <<"c", "h", "e", "c", "k", "s", "u", "m", ":">>

\* ---\s*\n matches in s at position r.
DashLineAt(s, r) ==
  /\ At(s, r, Dashes)
  /\ \E t \in r + 3..Len(s) : AllWs(s, r + 3, t - 1) /\ s[t] = "\n"

\* \n\s*---\s*\n matches in s at position q.
ClosingAt(s, q) ==
  /\ s[q] = "\n"
  /\ \E r \in q + 1..Len(s) : AllWs(s, q + 1, r - 1) /\ DashLineAt(s, r)

\* The positions after an opening --- at p where the closing may match.
Closings(s, p) == {q \in p + 3..Len(s) : ClosingAt(s, q)}

\* The group between the opening at p and the nearest closing.
BlockAt(s, p) == <<SubSeq(s, p + 3, SetMin(Closings(s, p)) - 1)>>

FirstBlock(s, opens) == IF opens = {} THEN <<>> ELSE BlockAt(s, SetMin(opens))

\* pullBody.match(/\s*---([^]*?)\n\s*---\s*\n/): the captured group of the
\* leftmost match, with the lazy group as short as it can be; <<>> when
\* there is no match, else <<group>>.
FrontmatterMatch(pullBody) ==
  FirstBlock(pullBody, {p \in 1..Len(pullBody) :
                          At(pullBody, p, Dashes) /\ Closings(pullBody, p) # {}})

\* line.match(/^key(.+)/): <<>> or <<the group>>.
KeyMatch(line, key) ==
  IF At(line, 1, key) /\ Len(line) > Len(key)
  THEN <<From(line, Len(key) + 1)>>
  ELSE <<>>

\* One turn of the loop over the lines of the block: acc holds draftId
\* and checksum as they stand, each <<>> for null; draftId holds what
\* parseInt returned.
ScanLine(acc, draftIdMatch, checksumMatch) ==
  IF draftIdMatch # <<>>
  THEN [acc EXCEPT !.draftId = <<ParseInt(Trim(draftIdMatch[1]))>>]
  ELSE IF checksumMatch # <<>>
  THEN [acc EXCEPT !.checksum = <<Trim(checksumMatch[1])>>]
  ELSE acc

RECURSIVE ScanFrontmatter(_, _)
ScanFrontmatter(lines, acc) ==
  IF lines = <<>> THEN acc
  ELSE ScanFrontmatter(Tail(lines),
         ScanLine(acc, KeyMatch(Head(lines), DraftIdKey),
                       KeyMatch(Head(lines), ChecksumKey)))

\* typeof draftId === "number" && !Number.isNaN(draftId) ? draftId : null
FrontmatterResult(got) ==
  <<[draftId  |-> IF got.draftId # <<>> /\ ~got.draftId[1].nan
                  THEN <<got.draftId[1].val>> ELSE <<>>,
     checksum |-> got.checksum]>>

FrontmatterOf(frontmatterMatch) ==
  IF frontmatterMatch = <<>> THEN <<>>
  ELSE FrontmatterResult(ScanFrontmatter(SplitLines(frontmatterMatch[1]),
                                         [draftId |-> <<>>, checksum |-> <<>>]))

\* getPullFrontmatterData: <<>> for null, else <<[draftId, checksum]>> with
\* each field <<>> for null or <<value>>.
getPullFrontmatterData(pullBody) == FrontmatterOf(FrontmatterMatch(pullBody))

\* createPullFrontmatter with the newline before the closing --- left out.
createPullFrontmatterUnclosed(draftId, checksum) ==
  Dashes \o <<"\n">> \o DraftIdKey \o <<" ">> \o IntToStr(draftId) \o <<"\n">>
         \o ChecksumKey \o <<" ">> \o checksum \o Dashes

\* createPullFrontmatter
createPullFrontmatter(draftId, checksum) ==
  Dashes \o <<"\n">> \o DraftIdKey \o <<" ">> \o IntToStr(draftId) \o <<"\n">>
         \o ChecksumKey \o <<" ">> \o checksum \o <<"\n">> \o Dashes

(***************************************************************************)
(* The changelog extractor                                                 *)
(***************************************************************************)

\* The number of decimal digits that stand in s from position i on.
DigitRun(s, i) == Len(DigitPrefix(From(s, i)))

\* \d+ stands at i, followed by `dots` more groups \.\d+
RECURSIVE DottedDigits(_, _, _)
DottedDigits(s, i, dots) ==
  /\ DigitRun(s, i) > 0
  /\ \/ dots = 0
     \/ /\ At(s, i + DigitRun(s, i), <<".">>)
        /\ DottedDigits(s, i + DigitRun(s, i) + 1, dots - 1)

\* /^## \d+\.\d+\.\d+/gm matches in s at position i.
VersionHeaderAt(s, i) ==
  /\ i = 1 \/ s[i - 1] = "\n"
  /\ At(s, i, <<"#", "#", " ">>)
  /\ DottedDigits(s, i + 3, 2)

\* The first newline of s from i on, else Len(s) + 1; and the same for
\* the first character that is no whitespace.
FirstNewline(s, i) ==
  IF \E k \in i..Len(s) : s[k] = "\n"
  THEN SetMin({k \in i..Len(s) : s[k] = "\n"})
  ELSE Len(s) + 1

FirstNonWs(s, i) ==
  IF \E k \in i..Len(s) : s[k] \notin WS
  THEN SetMin({k \in i..Len(s) : s[k] \notin WS})
  ELSE Len(s) + 1

\* Where the match of /## (.+)\s*$/m ends in the slice, whose first line
\* ends at eol and whose whitespace after it ends at wsEnd: \s* takes the
\* whitespace and gives back up to its last newline, unless it reached
\* the end of the text.
HeaderMatchEnd(slice, eol, wsEnd) ==
  IF wsEnd = Len(slice) + 1 THEN Len(slice) + 1
  ELSE SetMax({k \in eol..wsEnd - 1 : slice[k] = "\n"})

\* version and content of the slice, whose first line ends at eol
EntryParts(slice, eol) ==
  <<[version |-> SubSeq(slice, 4, eol - 1),
     content |-> Trim(From(slice, HeaderMatchEnd(slice, eol, FirstNonWs(slice, eol))))]>>

EntryOfSlice(latestChangelogEntry) ==
  EntryParts(latestChangelogEntry, FirstNewline(latestChangelogEntry, 1))

\* The second exec of the header pattern: the next header, else the end.
SecondHeader(changelog, later) ==
  IF later = {} THEN Len(changelog) + 1 ELSE SetMin(later)

LatestEntry(changelog, headers) ==
  IF headers = {} THEN <<>>
  ELSE EntryOfSlice(SubSeq(changelog, SetMin(headers),
                           SecondHeader(changelog, headers \ {SetMin(headers)}) - 1))

\* getLatestChangelogEntry: <<>> when the first exec returns null (the
\* source dereferences it and throws), else <<[version, content]>>.
getLatestChangelogEntry(changelog) ==
  LatestEntry(changelog, {i \in 1..Len(changelog) : VersionHeaderAt(changelog, i)})

(***************************************************************************)
(* The publish matcher                                                     *)
(***************************************************************************)

NewTag == <<"N", "e", "w", " ", "t", "a", "g", ":">>

\* @[^/]+\/[^@]+ from g, with its / at sl and the @ after the group at
\* at, followed by one non-space character at least.
ScopedFits(line, g, sl, at) ==
  /\ \A j \in g + 1..sl - 1 : line[j] # "/"
  /\ \A j \in sl + 1..at - 1 : line[j] # "@"
  /\ at > sl + 1
  /\ at + 1 <= Len(line)
  /\ line[at + 1] \notin WS

\* The ends of the first alternative of the group, started at g.
ScopedEnds(line, g) ==
  IF ~At(line, g, <<"@">>) THEN {}
  ELSE {at - 1 : at \in {a \in g + 4..Len(line) :
                           /\ line[a] = "@"
                           /\ \E sl \in g + 2..a - 2 :
                                /\ line[sl] = "/"
                                /\ ScopedFits(line, g, sl, a)}}

\* The ends of the second alternative [^/]+ of the group, started at g.
BareEnds(line, g) ==
  {e \in g..Len(line) - 2 :
     /\ \A j \in g..e : line[j] # "/"
     /\ line[e + 1] = "@"
     /\ line[e + 2] \notin WS}

\* The group started at g: the first alternative is tried first, and each
\* alternative is greedy.  <<>> or <<the group>>.
NameFrom(line, g, scoped, bare) ==
  IF scoped # {} THEN <<SubSeq(line, g, SetMax(scoped))>>
  ELSE IF bare # {} THEN <<SubSeq(line, g, SetMax(bare))>>
  ELSE <<>>

NameAt(line, g) == NameFrom(line, g, ScopedEnds(line, g), BareEnds(line, g))

\* The lengths \s+ may take after the marker at i and leave a match.
Gaps(line, i) ==
  {k \in 1..Len(line) :
     /\ i + 7 + k <= Len(line)
     /\ AllWs(line, i + 8, i + 7 + k)
     /\ NameAt(line, i + 8 + k) # <<>>}

FirstTag(line, starts) ==
  IF starts = {} THEN <<>>
  ELSE NameAt(line, SetMin(starts) + 8 + SetMax(Gaps(line, SetMin(starts))))

\* line.match(/New tag:\s+(@[^/]+\/[^@]+|[^/]+)@([^\s]+)/): <<>> for null,
\* else <<match[1]>>.  The leftmost marker that matches wins; \s+ takes as
\* much whitespace as leaves a match.
NewTagMatch(line) ==
  FirstTag(line, {i \in 1..Len(line) : At(line, i, NewTag) /\ Gaps(line, i) # {}})

\* packagesByName.get(pkgName): the Map keeps the last package of a name.
PackageByName(packages, pkgName) ==
  LET hits == {i \in 1..Len(packages) : packages[i].name = pkgName}
  IN  IF hits = {} THEN <<>> ELSE <<packages[SetMax(hits)]>>

\* The loop over the lines of the publish output in a workspace of many
\* packages: [threw |-> TRUE] when a line names an unknown package, else
\* the packages pushed so far.
RECURSIVE MatchReleased(_, _, _)
\* MatchLine with a package pushed only the first time it is named.
MatchLineOnce(lines, packages, releasedPackages, match) ==
  IF match = <<>>
  THEN MatchReleased(Tail(lines), packages, releasedPackages)
  ELSE IF PackageByName(packages, match[1]) = <<>>
  THEN [threw |-> TRUE, released |-> releasedPackages]
  ELSE IF \E i \in 1..Len(releasedPackages) :
            releasedPackages[i] = PackageByName(packages, match[1])[1]
  THEN MatchReleased(Tail(lines), packages, releasedPackages)
  ELSE MatchReleased(Tail(lines), packages,
         Append(releasedPackages, PackageByName(packages, match[1])[1]))

MatchLine(lines, packages, releasedPackages, match) ==
  IF match = <<>>
  THEN MatchReleased(Tail(lines), packages, releasedPackages)
  ELSE IF PackageByName(packages, match[1]) = <<>>
  THEN [threw |-> TRUE, released |-> releasedPackages]
  ELSE MatchReleased(Tail(lines), packages,
         Append(releasedPackages, PackageByName(packages, match[1])[1]))

MatchReleased(lines, packages, releasedPackages) ==
  IF lines = <<>> THEN [threw |-> FALSE, released |-> releasedPackages]
  ELSE MatchLine(lines, packages, releasedPackages, NewTagMatch(Head(lines)))

\* The loop of the root workspace: some line has the marker New tag:.
RootMatched(lines) == \E i \in 1..Len(lines) : Includes(lines[i], NewTag)

(***************************************************************************)
(* The pull request of a commit                                            *)
(***************************************************************************)

\* The comparator of the sort: a positive number when a goes after b.
MergedAtCompare(a, b) ==
  IF a.merged_at = <<>> /\ b.merged_at = <<>> THEN 0
  ELSE IF a.merged_at = <<>> THEN 1
  ELSE IF b.merged_at = <<>> THEN -1
  ELSE IF a.merged_at[1] > b.merged_at[1] THEN 1
  ELSE IF a.merged_at[1] < b.merged_at[1] THEN -1
  ELSE 0

\* Array.prototype.sort is stable: an insertion sort that moves an element
\* before the first one it is smaller than.
InsertSorted(sorted, p) ==
  LET after == {i \in 1..Len(sorted) : MergedAtCompare(sorted[i], p) > 0}
  IN  IF after = {} THEN Append(sorted, p)
      ELSE SubSeq(sorted, 1, SetMin(after) - 1) \o <<p>>
             \o From(sorted, SetMin(after))

RECURSIVE SortPulls(_)
SortPulls(ps) ==
  IF ps = <<>> THEN <<>>
  ELSE InsertSorted(SortPulls(SubSeq(ps, 1, Len(ps) - 1)), ps[Len(ps)])

\* SelectPull with the list taken as the host returned it.
SelectPullUnsorted(ps) == IF ps = <<>> THEN <<>> ELSE <<ps[1]>>

\* pulls.sort(...)[0] || null
SelectPull(ps) == IF ps = <<>> THEN <<>> ELSE <<SortPulls(ps)[1]>>

(***************************************************************************)
(* The inputs of the model                                                 *)
(***************************************************************************)

\* Bounds of the model.
MaxRuns == 3

MaxEdits == 1

MaxAssoc == 2

MaxDraftId == 12

\* The release host numbers releases upwards from here.
IdBase == 8

\* git fetch --deepen=50
DeepenBy == 50

\* The length of the history behind a shallow clone.
HistoryLen == 120

Doc1 == <<"#", " ", "p", "\n", "\n",
          "#", "#", " ", "1", ".", "1", ".", "0", "\n", "\n",
          "-", " ", "a", "\n", "\n",
          "#", "#", " ", "1", ".", "0", ".", "0", "\n", "\n",
          "-", " ", "i", "\n">>

Doc2 == <<"#", "#", " ", "1", ".", "2", ".", "0", "\n", "\n", "-", " ", "b", "\n">>

Doc3 == <<"#", " ", "p", "\n", "\n", "#", "#", " ", "n", "\n", "\n", "-", " ", "c", "\n">>

\* The commits that may trigger a run, and the changelog the version
\* command of the change tool leaves in the working directory at each.
Commits == {"c1", "c2", "c3"}

ChangelogAt(sha) ==
  CASE sha = "c1" -> Doc1
    [] sha = "c2" -> Doc2
    [] sha = "c3" -> Doc3

\* The text of the pull request up to the changelog entry, with the
\* sentences before the heading shortened to "PR".
PrIntro == <<"P", "R", "\n", "\n", "#", " ", "R", "\n">>

PrTitle == "Version Packages"

\* What a maintainer may put in the place of a release body.
ManualReleaseBody == <<"-", " ", "m">>

\* What a maintainer may put in the place of a pull request body: a text
\* with no block, and a block whose draft_id is no number.
ManualPullBodies ==
  { <<"w", "i", "p">>,
    Dashes \o <<"\n">> \o DraftIdKey \o <<" ", "x", "\n">>
           \o ChecksumKey \o <<" ", "a", "b", "\n">> \o Dashes \o <<"\n", "w">> }

PkgA == [name |-> <<"a">>, version |-> <<"1", ".", "1", ".", "0">>]

PkgB == [name |-> <<"@", "s", "/", "b">>, version |-> <<"0", ".", "1", ".", "0">>]

\* getPackages(cwd): the tool and the packages of the workspace.
Workspaces ==
  { [tool |-> "pnpm", packages |-> <<PkgA, PkgB>>],
    [tool |-> "root", packages |-> <<PkgA>>],
    [tool |-> "root", packages |-> <<>>],
    [tool |-> "root", packages |-> <<PkgA, PkgB>>] }

\* What the publish command may print: no tag; a tag for each of the two
\* packages; the tag of a package and then the tag of a package the
\* workspace does not have; the tag of one package twice.
StdoutNone == <<"n", "o", "n", "e", "\n">>

StdoutBoth ==
  NewTag \o <<" ">> \o PkgA.name \o <<"@">> \o PkgA.version \o <<"\n">>
    \o NewTag \o <<" ">> \o PkgB.name \o <<"@">> \o PkgB.version \o <<"\n">>

StdoutUnknown ==
  NewTag \o <<" ">> \o PkgA.name \o <<"@">> \o PkgA.version \o <<"\n">>
    \o NewTag \o <<" ", "x", "@", "1", ".", "0", ".", "0">>

StdoutTwice ==
  NewTag \o <<" ">> \o PkgA.name \o <<"@">> \o PkgA.version \o <<"\n">>
    \o NewTag \o <<" ">> \o PkgA.name \o <<"@">> \o PkgA.version \o <<"\n">>

PublishOutputs == {StdoutNone, StdoutBoth, StdoutUnknown, StdoutTwice}

\* The clone a run may start from: total commits of the history, commits
\* fetched, and how far behind HEAD the newest commit that deleted a
\* changeset file lies (0: there is none).
Clones ==
  { [total |-> 1, fetched |-> 1, del |-> 0],
    [total |-> HistoryLen, fetched |-> 1, del |-> 1],
    [total |-> HistoryLen, fetched |-> 1, del |-> HistoryLen - 10] }

(***************************************************************************)
(* State                                                                   *)
(***************************************************************************)

VARIABLES
  releases,   \* the releases of the host, in creation order; createdBy
              \* records which procedure made the release
  pulls,      \* the pull requests of the host; the number is the index
  remote,     \* the remote repository: the versioning branch and the tags
  pc,         \* where the running invocation stands; "idle" between runs
  run,        \* the local variables of the running invocation, and in
              \* `before` how many releases and pull requests it found
  calls,      \* the mutating calls the running invocation has made
  last,       \* the triggering commit and the remote state the last
              \* completed runVersion left, while nothing else has acted
  budget,     \* invocations and outside edits left
  clock,      \* the time of the host
  fmPc, fmIn, fmText, fmOut  \* the codec applied on its own

hostVars == <<releases, pulls, remote>>

codecVars == <<fmPc, fmIn, fmText, fmOut>>

vars == <<releases, pulls, remote, pc, run, calls, last, budget, clock,
          fmPc, fmIn, fmText, fmOut>>

NoRun ==
  [proc |-> "none", sha |-> "none", changelog |-> <<>>, committed |-> FALSE,
   items |-> <<>>, entry |-> <<>>, prBody |-> <<>>, frontmatterData |-> <<>>,
   draftRelease |-> <<>>, branch |-> "none",
   stdout |-> <<>>, tool |-> "none", packages |-> <<>>,
   releasedPackages |-> <<>>, clone |-> [total |-> 0, fetched |-> 0, del |-> 0],
   deepened |-> 0, commit |-> <<>>, pull |-> <<>>, result |-> <<>>,
   pkgChangelog |-> "none", associated |-> <<>>,
   before |-> [releases |-> 0, pulls |-> 0]]

NoLast == [valid |-> FALSE, sha |-> "none", state |-> <<>>, drift |-> <<>>]

\* Another invocation starts or the process ends in an error: the last
\* run is no longer the last, and a drift that was seen has been seen.
DriftOnly == [NoLast EXCEPT !.drift = last.drift]

Call(op, id) == [op |-> op, id |-> id]

ReleaseIndex(id) == id - IdBase

HasRelease(id) == ReleaseIndex(id) \in 1..Len(releases)

\* A search whose query matches no pull request.
OpenPullsNone == <<>>

\* The versioning pull requests the search returns: the open ones.
OpenPulls ==
  LET RECURSIVE Open(_)
      Open(n) == IF n = 0 THEN <<>>
                 ELSE IF pulls[n].state = "open"
                      THEN Append(Open(n - 1), pulls[n])
                      ELSE Open(n - 1)
  IN  Open(Len(pulls))

\* frontmatterData && frontmatterData.draftId && frontmatterData.checksum
FrontmatterComplete(frontmatterData) ==
  /\ frontmatterData # <<>>
  /\ frontmatterData[1].draftId # <<>>
  /\ frontmatterData[1].draftId[1] # 0
  /\ frontmatterData[1].checksum # <<>>
  /\ frontmatterData[1].checksum[1] # <<>>

\* frontmatterData && frontmatterData.draftId
FrontmatterHasDraftId(frontmatterData) ==
  /\ frontmatterData # <<>>
  /\ frontmatterData[1].draftId # <<>>
  /\ frontmatterData[1].draftId[1] # 0

VersionTag(version) == <<"v">> \o version

Init ==
  /\ releases = <<>>
  /\ pulls = <<>>
  /\ remote = [branch |-> <<>>, tags |-> FALSE]
  /\ pc = "idle"
  /\ run = NoRun
  /\ calls = <<>>
  /\ last = NoLast
  /\ budget = [runs |-> MaxRuns, edits |-> MaxEdits]
  /\ clock = 1
  /\ fmPc = "off" /\ fmIn = <<>> /\ fmText = <<>> /\ fmOut = <<>>

(***************************************************************************)
(* runVersion                                                              *)
(***************************************************************************)

StartVersion ==
  /\ pc = "idle"
  /\ budget.runs > 0
  /\ \E sha \in Commits :
       run' = [NoRun EXCEPT !.proc = "runVersion", !.sha = sha, !.branch = "main",
                            !.before = [releases |-> Len(releases),
                                        pulls |-> Len(pulls)]]
  /\ budget' = [budget EXCEPT !.runs = @ - 1]
  /\ calls' = <<>>
  /\ pc' = "v_switch"
  /\ UNCHANGED <<hostVars, last, clock, codecVars>>

\* gitUtils.switchToMaybeExistingBranch(versionBranch)
SwitchBranch ==
  /\ pc = "v_switch"
  /\ run' = [run EXCEPT !.branch = "changeset-release/main"]
  /\ calls' = Append(calls, Call("checkout", 0))
  /\ pc' = "v_reset"
  /\ UNCHANGED <<hostVars, last, budget, clock, codecVars>>

\* gitUtils.reset(github.context.sha)
ResetBranch ==
  /\ pc = "v_reset"
  /\ calls' = Append(calls, Call("reset", 0))
  /\ pc' = "v_bump"
  /\ UNCHANGED <<hostVars, run, last, budget, clock, codecVars>>

\* exec of the version command: the change tool writes the changelog
Bump ==
  /\ pc = "v_bump"
  /\ run' = [run EXCEPT !.changelog = <<ChangelogAt(run.sha)>>]
  /\ calls' = Append(calls, Call("bump", 0))
  /\ pc' = "v_search"
  /\ UNCHANGED <<hostVars, last, budget, clock, codecVars>>

\* octokit.search.issuesAndPullRequests
Search ==
  /\ pc = "v_search"
  /\ run' = [run EXCEPT !.items = OpenPulls]
  /\ pc' = "v_changelog"
  /\ UNCHANGED <<hostVars, calls, last, budget, clock, codecVars>>

\* ReadChangelog with a changelog that has no version header read as one
\* with an empty entry.
ReadChangelogLenient ==
  /\ pc = "v_changelog"
  /\ LET latestChangelogEntry == getLatestChangelogEntry(run.changelog[1])
         entry == IF latestChangelogEntry = <<>>
                  THEN <<[version |-> <<"0">>, content |-> <<>>]>>
                  ELSE latestChangelogEntry
     IN  /\ pc' = "v_clean"
         /\ run' = [run EXCEPT !.entry = entry,
                               !.prBody = PrIntro \o entry[1].content]
  /\ UNCHANGED <<hostVars, calls, last, budget, clock, codecVars>>

\* getLatestChangelogEntry and the body of the pull request
ReadChangelog ==
  /\ pc = "v_changelog"
  /\ LET latestChangelogEntry == getLatestChangelogEntry(run.changelog[1])
     IN  IF latestChangelogEntry = <<>>
         THEN /\ pc' = "failed"
              /\ run' = run
         ELSE /\ pc' = "v_clean"
              /\ run' = [run EXCEPT
                           !.entry = latestChangelogEntry,
                           !.prBody = PrIntro \o latestChangelogEntry[1].content]
  /\ UNCHANGED <<hostVars, calls, last, budget, clock, codecVars>>

\* checkIfClean is false: the changelog is unlinked and all is committed
CommitAll ==
  /\ pc = "v_clean"
  /\ run' = [run EXCEPT !.changelog = <<>>, !.committed = TRUE]
  /\ calls' = Append(calls, Call("commit", 0))
  /\ pc' = "v_push"
  /\ UNCHANGED <<hostVars, last, budget, clock, codecVars>>

\* AlreadyClean with the push made only after a commit.
AlreadyCleanSkipsPush ==
  /\ pc = "v_clean"
  /\ pc' = "v_sync"
  /\ UNCHANGED <<hostVars, run, calls, last, budget, clock, codecVars>>

\* checkIfClean is true: the project has committed already
AlreadyClean ==
  /\ pc = "v_clean"
  /\ pc' = "v_push"
  /\ UNCHANGED <<hostVars, run, calls, last, budget, clock, codecVars>>

\* gitUtils.push(versionBranch, { force: true })
Push ==
  /\ pc = "v_push"
  /\ remote' = [remote EXCEPT !.branch = <<run.sha>>]
  /\ calls' = Append(calls, Call("push", 0))
  /\ pc' = "v_sync"
  /\ UNCHANGED <<releases, pulls, run, last, budget, clock, codecVars>>

\* no open pull request: octokit.repos.createRelease, a draft
CreateDraftRelease ==
  /\ pc = "v_sync"
  /\ run.items = <<>>
  /\ LET entry == run.entry[1]
         draftRelease == [id         |-> IdBase + Len(releases) + 1,
                          draft      |-> TRUE,
                          name       |-> VersionTag(entry.version),
                          tag_name   |-> VersionTag(entry.version),
                          body       |-> entry.content,
                          prerelease |-> FALSE,
                          createdBy  |-> "runVersion"]
     IN  /\ releases' = Append(releases, draftRelease)
         /\ calls' = Append(calls, Call("createRelease", draftRelease.id))
         /\ run' = [run EXCEPT
                      !.draftRelease = <<draftRelease>>,
                      !.prBody = createPullFrontmatter(draftRelease.id,
                                                       md5(draftRelease.body))
                                   \o <<"\n", "\n">> \o run.prBody]
  /\ pc' = "v_pr_create"
  /\ UNCHANGED <<pulls, remote, last, budget, clock, codecVars>>

\* octokit.pulls.create
CreatePull ==
  /\ pc = "v_pr_create"
  /\ pulls' = Append(pulls, [number    |-> Len(pulls) + 1,
                             state     |-> "open",
                             merged_at |-> <<>>,
                             title     |-> PrTitle,
                             body      |-> run.prBody])
  /\ calls' = Append(calls, Call("createPull", Len(pulls) + 1))
  /\ pc' = "v_done"
  /\ UNCHANGED <<releases, remote, run, last, budget, clock, codecVars>>

\* an open pull request with a complete frontmatter: octokit.repos.getRelease
GetRelease ==
  /\ pc = "v_sync"
  /\ run.items # <<>>
  /\ LET frontmatterData == getPullFrontmatterData(run.items[1].body)
     IN  /\ FrontmatterComplete(frontmatterData)
         /\ IF HasRelease(frontmatterData[1].draftId[1])
            THEN /\ run' = [run EXCEPT
                              !.frontmatterData = frontmatterData,
                              !.draftRelease =
                                <<releases[ReleaseIndex(frontmatterData[1].draftId[1])]>>]
                 /\ pc' = "v_guard"
            ELSE /\ run' = [run EXCEPT !.frontmatterData = frontmatterData]
                 /\ pc' = "failed"
  /\ UNCHANGED <<hostVars, calls, last, budget, clock, codecVars>>

\* FrontmatterNotFound with a fresh draft release created for the pull
\* request that tracks none.
FrontmatterNotFoundCreates ==
  /\ pc = "v_sync"
  /\ run.items # <<>>
  /\ ~FrontmatterComplete(getPullFrontmatterData(run.items[1].body))
  /\ LET entry == run.entry[1]
         draftRelease == [id         |-> IdBase + Len(releases) + 1,
                          draft      |-> TRUE,
                          name       |-> VersionTag(entry.version),
                          tag_name   |-> VersionTag(entry.version),
                          body       |-> entry.content,
                          prerelease |-> FALSE,
                          createdBy  |-> "runVersion"]
     IN  /\ releases' = Append(releases, draftRelease)
         /\ calls' = Append(calls, Call("createRelease", draftRelease.id))
         /\ run' = [run EXCEPT
                      !.frontmatterData = getPullFrontmatterData(run.items[1].body),
                      !.prBody = createPullFrontmatter(draftRelease.id,
                                                       md5(draftRelease.body))
                                   \o <<"\n", "\n">> \o run.prBody]
  /\ pc' = "v_pr_update"
  /\ UNCHANGED <<pulls, remote, last, budget, clock, codecVars>>

\* an open pull request with no frontmatter or an incomplete one
FrontmatterNotFound ==
  /\ pc = "v_sync"
  /\ run.items # <<>>
  /\ LET frontmatterData == getPullFrontmatterData(run.items[1].body)
     IN  /\ ~FrontmatterComplete(frontmatterData)
         /\ run' = [run EXCEPT !.frontmatterData = frontmatterData]
  /\ pc' = "v_pr_update"
  /\ UNCHANGED <<hostVars, calls, last, budget, clock, codecVars>>

\* The comparison of the hashes left out: the release is always overwritten.
ChecksumMatchesAlways == TRUE

\* releaseContentHash === checksum
ChecksumMatches ==
  md5(run.draftRelease[1].body) = run.frontmatterData[1].checksum[1]

\* UpdateDraftRelease with the checksum taken over the body that was
\* fetched, not over the body that was written.
UpdateDraftReleaseStale ==
  /\ pc = "v_guard"
  /\ ChecksumMatches
  /\ LET draftId == run.frontmatterData[1].draftId[1]
         entry == run.entry[1]
         updatedRelease == [releases[ReleaseIndex(draftId)] EXCEPT
                              !.draft = TRUE,
                              !.name = VersionTag(entry.version),
                              !.tag_name = VersionTag(entry.version),
                              !.body = entry.content]
     IN  /\ releases' = [releases EXCEPT ![ReleaseIndex(draftId)] = updatedRelease]
         /\ calls' = Append(calls, Call("updateRelease", draftId))
         /\ run' = [run EXCEPT
                      !.prBody = createPullFrontmatter(draftId,
                                                       md5(run.draftRelease[1].body))
                                   \o <<"\n", "\n">> \o run.prBody]
  /\ pc' = "v_pr_update"
  /\ UNCHANGED <<pulls, remote, last, budget, clock, codecVars>>

\* the hashes agree: octokit.repos.updateRelease
UpdateDraftRelease ==
  /\ pc = "v_guard"
  /\ ChecksumMatches
  /\ LET draftId == run.frontmatterData[1].draftId[1]
         entry == run.entry[1]
         updatedRelease == [releases[ReleaseIndex(draftId)] EXCEPT
                              !.draft = TRUE,
                              !.name = VersionTag(entry.version),
                              !.tag_name = VersionTag(entry.version),
                              !.body = entry.content]
     IN  /\ releases' = [releases EXCEPT ![ReleaseIndex(draftId)] = updatedRelease]
         /\ calls' = Append(calls, Call("updateRelease", draftId))
         /\ run' = [run EXCEPT
                      !.prBody = createPullFrontmatter(draftId, md5(updatedRelease.body))
                                   \o <<"\n", "\n">> \o run.prBody]
  /\ pc' = "v_pr_update"
  /\ UNCHANGED <<pulls, remote, last, budget, clock, codecVars>>

\* PreserveFrontmatter with the checksum of the fetched body embedded, so
\* that the next run finds the hashes equal.
PreserveFrontmatterRehashed ==
  /\ pc = "v_guard"
  /\ ~ChecksumMatches
  /\ LET draftId == run.frontmatterData[1].draftId[1]
         checksum == run.frontmatterData[1].checksum[1]
     IN  /\ run' = [run EXCEPT
                      !.prBody = createPullFrontmatter(draftId,
                                                       md5(run.draftRelease[1].body))
                                   \o <<"\n", "\n">> \o run.prBody]
         /\ last' = IF last.drift # <<>> THEN last
                    ELSE [last EXCEPT !.drift =
                            <<[number   |-> run.items[1].number,
                               draftId  |-> draftId,
                               checksum |-> checksum,
                               release  |-> run.draftRelease[1],
                               runs     |-> budget.runs]>>]
  /\ pc' = "v_pr_update"
  /\ UNCHANGED <<hostVars, calls, budget, clock, codecVars>>

\* the hashes differ: the frontmatter is kept as it was read
PreserveFrontmatter ==
  /\ pc = "v_guard"
  /\ ~ChecksumMatches
  /\ LET draftId == run.frontmatterData[1].draftId[1]
         checksum == run.frontmatterData[1].checksum[1]
     IN  /\ run' = [run EXCEPT
                      !.prBody = createPullFrontmatter(draftId, checksum)
                                   \o <<"\n", "\n">> \o run.prBody]
         /\ last' = IF last.drift # <<>> THEN last
                    ELSE [last EXCEPT !.drift =
                            <<[number   |-> run.items[1].number,
                               draftId  |-> draftId,
                               checksum |-> checksum,
                               release  |-> run.draftRelease[1],
                               runs     |-> budget.runs]>>]
  /\ pc' = "v_pr_update"
  /\ UNCHANGED <<hostVars, calls, budget, clock, codecVars>>

\* UpdatePull with the title written and the body left as it was found.
UpdatePullTitleOnly ==
  /\ pc = "v_pr_update"
  /\ LET number == run.items[1].number
     IN  /\ pulls' = [pulls EXCEPT ![number] = [@ EXCEPT !.title = PrTitle]]
         /\ calls' = Append(calls, Call("updatePull", number))
  /\ pc' = "v_done"
  /\ UNCHANGED <<releases, remote, run, last, budget, clock, codecVars>>

\* octokit.pulls.update
UpdatePull ==
  /\ pc = "v_pr_update"
  /\ LET number == run.items[1].number
     IN  /\ pulls' = [pulls EXCEPT ![number] =
                        [@ EXCEPT !.title = PrTitle, !.body = run.prBody]]
         /\ calls' = Append(calls, Call("updatePull", number))
  /\ pc' = "v_done"
  /\ UNCHANGED <<releases, remote, run, last, budget, clock, codecVars>>

\* runVersion returns
FinishVersion ==
  /\ pc = "v_done"
  /\ last' = [valid |-> TRUE, sha |-> run.sha, state |-> hostVars,
               drift |-> last.drift]
  /\ pc' = "idle"
  /\ run' = NoRun
  /\ calls' = <<>>
  /\ UNCHANGED <<hostVars, budget, clock, codecVars>>

(***************************************************************************)
(* runPublish                                                              *)
(***************************************************************************)

StartPublish ==
  /\ pc = "idle"
  /\ budget.runs > 0
  /\ run' = [NoRun EXCEPT !.proc = "runPublish",
                          !.before = [releases |-> Len(releases),
                                      pulls |-> Len(pulls)]]
  /\ budget' = [budget EXCEPT !.runs = @ - 1]
  /\ calls' = <<>>
  /\ last' = DriftOnly
  /\ pc' = "p_exec"
  /\ UNCHANGED <<hostVars, clock, codecVars>>

\* ExecPublish with the packages read next and no tag pushed.
ExecPublishNoTags ==
  /\ pc = "p_exec"
  /\ \E stdout \in PublishOutputs : run' = [run EXCEPT !.stdout = stdout]
  /\ calls' = Append(calls, Call("publish", 0))
  /\ pc' = "p_packages"
  /\ UNCHANGED <<hostVars, last, budget, clock, codecVars>>

\* execWithOutput of the publish command
ExecPublish ==
  /\ pc = "p_exec"
  /\ \E stdout \in PublishOutputs : run' = [run EXCEPT !.stdout = stdout]
  /\ calls' = Append(calls, Call("publish", 0))
  /\ pc' = "p_tags"
  /\ UNCHANGED <<hostVars, last, budget, clock, codecVars>>

\* gitUtils.pushTags()
PushTags ==
  /\ pc = "p_tags"
  /\ remote' = [remote EXCEPT !.tags = TRUE]
  /\ calls' = Append(calls, Call("pushTags", 0))
  /\ pc' = "p_packages"
  /\ UNCHANGED <<releases, pulls, run, last, budget, clock, codecVars>>

\* getPackages(cwd)
GetPackages ==
  /\ pc = "p_packages"
  /\ \E ws \in Workspaces :
       /\ run' = [run EXCEPT !.tool = ws.tool, !.packages = ws.packages]
       /\ pc' = IF ws.tool # "root" THEN "p_match" ELSE "p_root"
  /\ UNCHANGED <<hostVars, calls, last, budget, clock, codecVars>>

\* the loop over the output lines in a workspace of many packages
MatchPublished ==
  /\ pc = "p_match"
  /\ LET got == MatchReleased(SplitLines(run.stdout), run.packages, <<>>)
     IN  IF got.threw
         THEN /\ pc' = "failed"
              /\ run' = run
         ELSE /\ run' = [run EXCEPT !.releasedPackages = got.released]
              /\ pc' = IF got.released # <<>> THEN "p_locate" ELSE "p_done"
  /\ UNCHANGED <<hostVars, calls, last, budget, clock, codecVars>>

\* getLatestChangesetVersionCommit is entered: the clone of this run is
\* looked at for the first time.
EnterLocator ==
  /\ pc = "p_locate"
  /\ \E clone \in Clones : run' = [run EXCEPT !.clone = clone]
  /\ pc' = "p_log"
  /\ UNCHANGED <<hostVars, calls, last, budget, clock, codecVars>>

\* LogDeletion with a query that looks at HEAD only.
LogDeletionHeadOnly ==
  /\ pc = "p_log"
  /\ IF run.clone.del = 1
     THEN /\ run' = [run EXCEPT !.commit = <<run.clone.del>>]
          /\ pc' = "p_list"
     ELSE /\ run' = run
          /\ pc' = "p_shallow"
  /\ UNCHANGED <<hostVars, calls, last, budget, clock, codecVars>>

\* git log --max-count=1 --diff-filter=D -- .changeset/*.md
LogDeletion ==
  /\ pc = "p_log"
  /\ IF run.clone.del # 0 /\ run.clone.del <= run.clone.fetched
     THEN /\ run' = [run EXCEPT !.commit = <<run.clone.del>>]
          /\ pc' = "p_list"
     ELSE /\ run' = run
          /\ pc' = "p_shallow"
  /\ UNCHANGED <<hostVars, calls, last, budget, clock, codecVars>>

\* CheckShallow with the null of a full clone taken for a commit.
CheckShallowIgnoresNull ==
  /\ pc = "p_shallow"
  /\ pc' = IF run.clone.fetched < run.clone.total THEN "p_deepen" ELSE "p_list"
  /\ UNCHANGED <<hostVars, run, calls, last, budget, clock, codecVars>>

\* isRepoShallow: a full clone ends the search with null
CheckShallow ==
  /\ pc = "p_shallow"
  /\ pc' = IF run.clone.fetched < run.clone.total THEN "p_deepen" ELSE "p_done"
  /\ UNCHANGED <<hostVars, run, calls, last, budget, clock, codecVars>>

\* DeepenClone with a fetch that brings nothing.
DeepenCloneNothing ==
  /\ pc = "p_deepen"
  /\ pc' = "p_log"
  /\ UNCHANGED <<hostVars, run, calls, last, budget, clock, codecVars>>

\* deepenCloneBy({ by: 50 })
DeepenClone ==
  /\ pc = "p_deepen"
  /\ LET more == run.clone.fetched + DeepenBy
     IN  run' = [run EXCEPT
                   !.clone.fetched = IF more > run.clone.total
                                     THEN run.clone.total ELSE more,
                   !.deepened = @ + 1]
  /\ pc' = "p_log"
  /\ UNCHANGED <<hostVars, calls, last, budget, clock, codecVars>>

\* The lists the host may return for a commit: pull requests of the
\* repository, none of them twice.
AssociatedLists ==
  LET numbers == UNION {[1..n -> 1..Len(pulls)] : n \in 0..MaxAssoc}
  IN  {[k \in DOMAIN ns |-> pulls[ns[k]]] :
         ns \in {f \in numbers : \A a, b \in DOMAIN f : a # b => f[a] # f[b]}}

\* octokit.repos.listPullRequestsAssociatedWithCommit and the sort
ListPulls ==
  /\ pc = "p_list"
  /\ \E associated \in AssociatedLists :
       run' = [run EXCEPT !.associated = associated,
                          !.pull = SelectPull(associated)]
  /\ pc' = "p_promote"
  /\ UNCHANGED <<hostVars, calls, last, budget, clock, codecVars>>

\* the pull request carries a draft_id: octokit.repos.updateRelease
PromoteRelease ==
  /\ pc = "p_promote"
  /\ run.pull # <<>>
  /\ LET frontmatterData == getPullFrontmatterData(run.pull[1].body)
     IN  /\ FrontmatterHasDraftId(frontmatterData)
         /\ LET draftId == frontmatterData[1].draftId[1]
            IN  IF HasRelease(draftId)
                THEN /\ releases' = [releases EXCEPT
                                       ![ReleaseIndex(draftId)].draft = FALSE]
                     /\ calls' = Append(calls, Call("updateRelease", draftId))
                     /\ pc' = "p_done"
                ELSE /\ releases' = releases
                     /\ calls' = calls
                     /\ pc' = "failed"
         /\ run' = [run EXCEPT !.frontmatterData = frontmatterData]
  /\ UNCHANGED <<pulls, remote, last, budget, clock, codecVars>>

\* no pull request, or one with no draft_id: the run only logs
NoPromotion ==
  /\ pc = "p_promote"
  /\ \/ run.pull = <<>>
     \/ /\ run.pull # <<>>
        /\ ~FrontmatterHasDraftId(getPullFrontmatterData(run.pull[1].body))
  /\ pc' = "p_done"
  /\ UNCHANGED <<hostVars, run, calls, last, budget, clock, codecVars>>

\* RootScan with a workspace of exactly one package required.
RootScanExactlyOne ==
  /\ pc = "p_root"
  /\ IF Len(run.packages) # 1
     THEN /\ pc' = "failed"
          /\ run' = run
     ELSE IF RootMatched(SplitLines(run.stdout))
     THEN /\ run' = [run EXCEPT !.releasedPackages = <<run.packages[1]>>]
          /\ pc' = "p_release"
     ELSE /\ run' = run
          /\ pc' = "p_done"
  /\ UNCHANGED <<hostVars, calls, last, budget, clock, codecVars>>

\* the root workspace: the package and the loop over the output lines
RootScan ==
  /\ pc = "p_root"
  /\ IF Len(run.packages) = 0
     THEN /\ pc' = "failed"
          /\ run' = run
     ELSE IF RootMatched(SplitLines(run.stdout))
     THEN /\ run' = [run EXCEPT !.releasedPackages = <<run.packages[1]>>]
          /\ pc' = "p_release"
     ELSE /\ run' = run
          /\ pc' = "p_done"
  /\ UNCHANGED <<hostVars, calls, last, budget, clock, codecVars>>

\* What reading the changelog of the package gives createRelease: no file,
\* a file with no entry for the version, or the entry's content.
PackageChangelogs == {"ENOENT", "no entry", "entry"}

\* CreateRootRelease with the release created as a draft.
CreateRootReleaseAsDraft ==
  /\ pc = "p_release"
  /\ \E changelog \in PackageChangelogs :
       LET pkg == run.releasedPackages[1]
       IN  /\ run' = [run EXCEPT !.pkgChangelog = changelog]
           /\ CASE changelog = "ENOENT" ->
                  /\ pc' = "p_done"
                  /\ UNCHANGED <<releases, calls>>
             [] changelog = "no entry" ->
                  /\ pc' = "failed"
                  /\ UNCHANGED <<releases, calls>>
             [] OTHER ->
                  /\ releases' = Append(releases,
                       [id         |-> IdBase + Len(releases) + 1,
                        draft      |-> TRUE ,
                        name       |-> VersionTag(pkg.version),
                        tag_name   |-> VersionTag(pkg.version),
                        body       |-> <<"-", " ", "a">>,
                        prerelease |-> Includes(pkg.version, <<"-">>),
                        createdBy  |-> "runPublish"])
                  /\ calls' = Append(calls,
                       Call("createRelease", IdBase + Len(releases) + 1))
                  /\ pc' = "p_done"
  /\ UNCHANGED <<pulls, remote, last, budget, clock, codecVars>>

\* createRelease of the root workspace
CreateRootRelease ==
  /\ pc = "p_release"
  /\ \E changelog \in PackageChangelogs :
       LET pkg == run.releasedPackages[1]
       IN  /\ run' = [run EXCEPT !.pkgChangelog = changelog]
           /\ CASE changelog = "ENOENT" ->
                  /\ pc' = "p_done"
                  /\ UNCHANGED <<releases, calls>>
             [] changelog = "no entry" ->
                  /\ pc' = "failed"
                  /\ UNCHANGED <<releases, calls>>
             [] OTHER ->
                  /\ releases' = Append(releases,
                       [id         |-> IdBase + Len(releases) + 1,
                        draft      |-> FALSE,
                        name       |-> VersionTag(pkg.version),
                        tag_name   |-> VersionTag(pkg.version),
                        body       |-> <<"-", " ", "a">>,
                        prerelease |-> Includes(pkg.version, <<"-">>),
                        createdBy  |-> "runPublish"])
                  /\ calls' = Append(calls,
                       Call("createRelease", IdBase + Len(releases) + 1))
                  /\ pc' = "p_done"
  /\ UNCHANGED <<pulls, remote, last, budget, clock, codecVars>>

\* runPublish returns
FinishPublish ==
  /\ pc = "p_done"
  /\ run' = [run EXCEPT !.result =
               <<[published |-> run.releasedPackages # <<>>,
                  publishedPackages |-> run.releasedPackages]>>]
  /\ pc' = "p_returned"
  /\ UNCHANGED <<hostVars, calls, last, budget, clock, codecVars>>

\* The process ends.
ExitPublish ==
  /\ pc = "p_returned"
  /\ pc' = "idle"
  /\ run' = NoRun
  /\ calls' = <<>>
  /\ UNCHANGED <<hostVars, last, budget, clock, codecVars>>

(***************************************************************************)
(* Failures                                                                *)
(***************************************************************************)

\* The positions at which the next statement is a call of the host.
HostCallPcs == {"v_sync", "v_guard", "v_pr_create", "v_pr_update", "p_promote"}

\* A call of the host throws: nothing catches it and the run ends.
HostError ==
  /\ pc \in HostCallPcs
  /\ pc' = "failed"
  /\ UNCHANGED <<hostVars, run, calls, last, budget, clock, codecVars>>

\* The process exits with a non-zero status.
Abort ==
  /\ pc = "failed"
  /\ pc' = "idle"
  /\ last' = DriftOnly
  /\ run' = NoRun
  /\ calls' = <<>>
  /\ UNCHANGED <<hostVars, budget, clock, codecVars>>

(***************************************************************************)
(* What others do to the host between invocations                          *)
(***************************************************************************)

MergePull ==
  /\ pc = "idle"
  /\ budget.edits > 0
  /\ \E n \in 1..Len(pulls) :
       /\ pulls[n].state = "open"
       /\ pulls' = [pulls EXCEPT ![n] =
                      [@ EXCEPT !.state = "closed", !.merged_at = <<clock>>]]
  /\ clock' = clock + 1
  /\ budget' = [budget EXCEPT !.edits = @ - 1]
  /\ last' = NoLast
  /\ UNCHANGED <<releases, remote, pc, run, calls, codecVars>>

EditReleaseBody ==
  /\ pc = "idle"
  /\ budget.edits > 0
  /\ \E i \in 1..Len(releases) :
       /\ releases[i].body # ManualReleaseBody
       /\ releases' = [releases EXCEPT ![i].body = ManualReleaseBody]
  /\ budget' = [budget EXCEPT !.edits = @ - 1]
  /\ last' = NoLast
  /\ UNCHANGED <<pulls, remote, pc, run, calls, clock, codecVars>>

EditPullBody ==
  /\ pc = "idle"
  /\ budget.edits > 0
  /\ \E n \in 1..Len(pulls), body \in ManualPullBodies :
       /\ pulls[n].state = "open"
       /\ pulls[n].body # body
       /\ pulls' = [pulls EXCEPT ![n].body = body]
  /\ budget' = [budget EXCEPT !.edits = @ - 1]
  /\ last' = NoLast
  /\ UNCHANGED <<releases, remote, pc, run, calls, clock, codecVars>>

(***************************************************************************)
(* The specification                                                       *)
(***************************************************************************)

Next ==
  \/ StartVersion \/ SwitchBranch \/ ResetBranch \/ Bump \/ Search
  \/ ReadChangelog \/ CommitAll \/ AlreadyClean \/ Push
  \/ CreateDraftRelease \/ CreatePull \/ GetRelease \/ FrontmatterNotFound
  \/ UpdateDraftRelease \/ PreserveFrontmatter \/ UpdatePull \/ FinishVersion
  \/ StartPublish \/ ExecPublish \/ PushTags \/ GetPackages \/ MatchPublished
  \/ EnterLocator \/ LogDeletion \/ CheckShallow \/ DeepenClone \/ ListPulls
  \/ PromoteRelease \/ NoPromotion \/ RootScan \/ CreateRootRelease
  \/ FinishPublish \/ ExitPublish
  \/ HostError \/ Abort
  \/ MergePull \/ EditReleaseBody \/ EditPullBody

Spec == Init /\ [][Next]_vars

(***************************************************************************)
(* The codec on its own: encode a frontmatter, decode the text             *)
(***************************************************************************)

\* The checksums the codec is tried on: digests.
CodecChecksums == {md5(<<>>), md5(<<"-", " ", "a">>), md5(<<"-", " ", "b">>),
                   md5(ManualReleaseBody), md5(Doc1), md5(Doc2), md5(Doc3)}

CodecInit ==
  /\ releases = <<>>
  /\ pulls = <<>>
  /\ remote = [branch |-> <<>>, tags |-> FALSE]
  /\ pc = "idle"
  /\ run = NoRun
  /\ calls = <<>>
  /\ last = NoLast
  /\ budget = [runs |-> 0, edits |-> 0]
  /\ clock = 1
  /\ fmPc = "encode"
  /\ fmIn \in [draftId : 1..MaxDraftId, checksum : CodecChecksums]
  /\ fmText = <<>>
  /\ fmOut = <<>>

\* createPullFrontmatter(f)
Encode ==
  /\ fmPc = "encode"
  /\ fmText' = createPullFrontmatter(fmIn.draftId, fmIn.checksum)
  /\ fmPc' = "decode"
  /\ UNCHANGED <<hostVars, pc, run, calls, last, budget, clock, fmIn, fmOut>>

\* getPullFrontmatterData of the text createPullFrontmatter returned
Decode ==
  /\ fmPc = "decode"
  /\ fmOut' = getPullFrontmatterData(fmText)
  /\ fmPc' = "done"
  /\ UNCHANGED <<hostVars, pc, run, calls, last, budget, clock, fmIn, fmText>>

CodecNext == Encode \/ Decode

CodecSpec == CodecInit /\ [][CodecNext]_vars

(***************************************************************************)
(* The locator on its own: getLatestChangesetVersionCommit on many clones  *)
(***************************************************************************)

\* The clones the locator is tried on: histories of one commit, of one
\* deepening and of HistoryLen commits, fetched in part or in full, with
\* the deletion of a changeset file nowhere, at HEAD or further back.
LocatorClones ==
  {c \in [total : {1, DeepenBy, HistoryLen},
          fetched : {1, 20, DeepenBy, HistoryLen},
          del : {0, 1, 15, 45, HistoryLen - 10}] :
     c.fetched <= c.total /\ c.del <= c.total}

\* runPublish has matched two packages and enters the locator.
LocatorInit ==
  /\ releases = <<>>
  /\ pulls = <<>>
  /\ remote = [branch |-> <<>>, tags |-> TRUE]
  /\ pc = "p_log"
  /\ \E clone \in LocatorClones :
       run = [NoRun EXCEPT !.proc = "runPublish",
                           !.stdout = NewTag \o <<" ">> \o PkgA.name \o <<"@">>
                                        \o PkgA.version \o <<"\n">>,
                           !.tool = "pnpm",
                           !.packages = <<PkgA, PkgB>>,
                           !.releasedPackages = <<PkgA>>,
                           !.clone = clone]
  /\ calls = <<Call("publish", 0), Call("pushTags", 0)>>
  /\ last = NoLast
  /\ budget = [runs |-> 0, edits |-> 0]
  /\ clock = 1
  /\ fmPc = "off" /\ fmIn = <<>> /\ fmText = <<>> /\ fmOut = <<>>

LocatorNext == LogDeletion \/ CheckShallow \/ DeepenClone

\* The statements of the loop follow one another: each await returns.
LocatorSpec ==
  /\ LocatorInit
  /\ [][LocatorNext]_vars
  /\ WF_vars(LogDeletion)
  /\ WF_vars(CheckShallow)
  /\ WF_vars(DeepenClone)

(***************************************************************************)
(* The resolver on its own: the pull request of the located commit         *)
(***************************************************************************)

\* The times at which the pull requests the resolver is tried on were
\* merged: <<>> for one that was not merged.
ResolverTimes == {<<>>, <<1>>, <<2>>}

\* The pull requests of the host the resolver is tried on: up to three,
\* each merged at one of the times or not merged.
ResolverPulls ==
  UNION {{[n \in 1..len |->
             [number    |-> n,
              state     |-> IF times[n] = <<>> THEN "open" ELSE "closed",
              merged_at |-> times[n],
              title     |-> PrTitle,
              body      |-> PrIntro]] :
            times \in [1..len -> ResolverTimes]} : len \in 0..3}

\* runPublish has located the commit and asks the host for its pull
\* requests.
ResolverInit ==
  /\ releases = <<>>
  /\ pulls \in ResolverPulls
  /\ remote = [branch |-> <<>>, tags |-> TRUE]
  /\ pc = "p_list"
  /\ run = [NoRun EXCEPT !.proc = "runPublish",
                         !.stdout = StdoutTwice,
                         !.tool = "pnpm",
                         !.packages = <<PkgA, PkgB>>,
                         !.releasedPackages = <<PkgA, PkgA>>,
                         !.clone = [total |-> 1, fetched |-> 1, del |-> 1],
                         !.commit = <<1>>,
                         !.before = [releases |-> 0, pulls |-> Len(pulls)]]
  /\ calls = <<Call("publish", 0), Call("pushTags", 0)>>
  /\ last = NoLast
  /\ budget = [runs |-> 0, edits |-> 0]
  /\ clock = 3
  /\ fmPc = "off" /\ fmIn = <<>> /\ fmText = <<>> /\ fmOut = <<>>

ResolverNext == ListPulls

ResolverSpec == ResolverInit /\ [][ResolverNext]_vars

(***************************************************************************)
(* Properties                                                              *)
(***************************************************************************)

ReleaseOps == {"createRelease", "updateRelease"}

PullOps == {"createPull", "updatePull"}

\* The positions in the log of the calls with an operation among ops.
CallsOf(ops) == {i \in 1..Len(calls) : calls[i].op \in ops}

\* This runVersion found an open pull request.
FoundOpenPull == run.proc = "runVersion" /\ run.items # <<>>

\* The frontmatter of the pull request as the search of this run found it.
FoundFrontmatter == getPullFrontmatterData(run.items[1].body)

\* The pull request found, as the host has it now.
FoundPull == pulls[run.items[1].number]

\* The frontmatter fm has both fields, and the run fetched a release.
Tracked(fm) ==
  /\ fm # <<>>
  /\ fm[1].draftId # <<>>
  /\ fm[1].checksum # <<>>
  /\ run.draftRelease # <<>>

Drifted(fm) == Tracked(fm) /\ md5(run.draftRelease[1].body) # fm[1].checksum[1]

Undrifted(fm) == Tracked(fm) /\ md5(run.draftRelease[1].body) = fm[1].checksum[1]

\* The release the frontmatter fm names, as the host has it now.
TrackedRelease(fm) == releases[ReleaseIndex(fm[1].draftId[1])]

\* The run has made no call that changes a release, and the release fm
\* names is as the run fetched it.
ReleaseKept(fm) ==
  /\ CallsOf(ReleaseOps) = {}
  /\ TrackedRelease(fm) = run.draftRelease[1]

\* The body of the found pull request decodes to the pair of fm.
PairKept(fm) ==
  getPullFrontmatterData(FoundPull.body) =
    <<[draftId |-> fm[1].draftId, checksum |-> fm[1].checksum]>>

DriftKeeps(fm) ==
  Drifted(fm) => ReleaseKept(fm) /\ (pc = "v_done" => PairKept(fm))

\* C1: when the hash of the fetched release differs from the stored
\* checksum, the run makes no call that changes a release, the release is
\* as it was fetched, and the body the run writes to the pull request
\* decodes to the pair the run read.
C1_DriftKeepsRelease ==
  (pc \in {"v_pr_update", "v_done", "failed"} /\ FoundOpenPull) =>
    DriftKeeps(FoundFrontmatter)

C1_Witness ==
  /\ pc = "v_done"
  /\ FoundOpenPull
  /\ Drifted(FoundFrontmatter)
  /\ FoundPull.body = run.prBody

\* The release fm names has the extracted content as its body, and the
\* body of the found pull request decodes to the draftId of fm and the
\* hash of the body of the release.
Overwritten(fm) ==
  /\ TrackedRelease(fm).body = run.entry[1].content
  /\ getPullFrontmatterData(FoundPull.body) =
       <<[draftId  |-> fm[1].draftId,
          checksum |-> <<md5(TrackedRelease(fm).body)>>]>>

MatchOverwrites(fm) == Undrifted(fm) => Overwritten(fm)

\* C2: when the hash of the fetched release equals the stored checksum,
\* the release body becomes the extracted changelog content and the body
\* written to the pull request decodes to the same draftId and the hash of
\* the new release body.
C2_MatchOverwrites ==
  (pc = "v_done" /\ FoundOpenPull) => MatchOverwrites(FoundFrontmatter)

C2_Witness ==
  /\ pc = "v_done"
  /\ FoundOpenPull
  /\ Undrifted(FoundFrontmatter)
  /\ run.draftRelease[1].body # run.entry[1].content

Calls(op, id) ==
  /\ Len(calls') = Len(calls) + 1
  /\ calls'[Len(calls')] = Call(op, id)

\* C4: a release that is no draft is not the target of an updateRelease,
\* and stays no draft.
C4_PromotedUntouched ==
  [][\A i \in 1..Len(releases) :
       ~releases[i].draft =>
         /\ ~Calls("updateRelease", releases[i].id)
         /\ ~releases'[i].draft]_vars

\* The pull requests whose frontmatter names the release id.
Referencing(id) ==
  {n \in 1..Len(pulls) :
     /\ getPullFrontmatterData(pulls[n].body) # <<>>
     /\ getPullFrontmatterData(pulls[n].body)[1].draftId = <<id>>}

\* C5: between invocations, with no edit from outside, each release that
\* runVersion created is named by the frontmatter of exactly one pull
\* request.
C5_OneReference ==
  (pc = "idle" /\ budget.edits = MaxEdits) =>
    \A i \in 1..Len(releases) :
      releases[i].createdBy = "runVersion" =>
        Cardinality(Referencing(releases[i].id)) = 1

\* C6: a runVersion that found no open pull request and completed has made
\* one release, a draft with the extracted content as its body, and one
\* pull request, whose body decodes to the id of that release and the hash
\* of its body.
C6_CreatesDraftAndPull ==
  (pc = "v_done" /\ run.proc = "runVersion" /\ run.items = <<>>) =>
    /\ Len(releases) = run.before.releases + 1
    /\ Len(pulls) = run.before.pulls + 1
    /\ Cardinality(CallsOf({"createRelease"})) = 1
    /\ Cardinality(CallsOf({"createPull"})) = 1
    /\ CallsOf({"updateRelease", "updatePull"}) = {}
    /\ releases[Len(releases)].draft
    /\ releases[Len(releases)].body =
         getLatestChangelogEntry(ChangelogAt(run.sha))[1].content
    /\ pulls[Len(pulls)].state = "open"
    /\ getPullFrontmatterData(pulls[Len(pulls)].body) =
         <<[draftId  |-> <<releases[Len(releases)].id>>,
            checksum |-> <<md5(releases[Len(releases)].body)>>]>>

C6_Witness ==
  /\ pc = "v_done"
  /\ run.proc = "runVersion"
  /\ run.items = <<>>
  /\ Len(releases) = 2

\* The frontmatter fm is absent or lacks a field.
Incomplete(fm) == fm = <<>> \/ fm[1].draftId = <<>> \/ fm[1].checksum = <<>>

\* C7 as the specification states it: a run that found a pull request with
\* an absent or incomplete frontmatter has created a release.
C7_CreatesFresh ==
  (pc = "v_done" /\ FoundOpenPull /\ Incomplete(FoundFrontmatter)) =>
    CallsOf({"createRelease"}) # {}

\* C7, amended: such a run creates no release and calls the host for no
\* release at all; the releases are as the run found them.
C7_CreatesNone ==
  (pc \in {"v_pr_update", "v_done"} /\ FoundOpenPull /\ Incomplete(FoundFrontmatter)) =>
    /\ CallsOf(ReleaseOps) = {}
    /\ run.draftRelease = <<>>
    /\ Len(releases) = run.before.releases

C7_Witness ==
  /\ pc = "v_done"
  /\ FoundOpenPull
  /\ Incomplete(FoundFrontmatter)
  /\ FoundPull.body = run.prBody

\* C8: a release goes from draft to published only in the promotion step
\* of runPublish, in a workspace of many packages, with a package matched,
\* a commit located, a pull request selected, and the frontmatter of that
\* pull request naming this release.
C8_OnlyPromotion ==
  [][\A i \in 1..Len(releases) :
       (releases[i].draft /\ ~releases'[i].draft) =>
         /\ pc = "p_promote"
         /\ run.proc = "runPublish"
         /\ run.tool # "root"
         /\ run.releasedPackages # <<>>
         /\ run.commit # <<>>
         /\ run.pull # <<>>
         /\ getPullFrontmatterData(run.pull[1].body) # <<>>
         /\ getPullFrontmatterData(run.pull[1].body)[1].draftId = <<releases[i].id>>
         /\ \A j \in 1..Len(releases) :
              j # i => releases'[j] = releases[j]]_vars

C8_Witness ==
  /\ pc = "p_done"
  /\ CallsOf({"updateRelease"}) # {}
  /\ \E i \in 1..Len(releases) :
       ~releases[i].draft /\ releases[i].createdBy = "runVersion"

\* C9 as the specification states it: in a runVersion no release call and
\* no pull request call comes after the push.
C9_PushLast ==
  run.proc = "runVersion" =>
    \A i, j \in 1..Len(calls) :
      (i < j /\ calls[i].op = "push") => calls[j].op \notin ReleaseOps \cup PullOps

\* The place of a call in the sequence of runVersion.
Rank(op) ==
  CASE op = "checkout" -> 0
    [] op = "reset" -> 1
    [] op = "bump" -> 2
    [] op = "commit" -> 3
    [] op = "push" -> 4
    [] op \in ReleaseOps -> 5
    [] op \in PullOps -> 6
    [] OTHER -> 7

\* C9, amended: the calls of a runVersion come in the order branch reset,
\* version bump, commit, push, release sync, pull request write, and every
\* release or pull request call has the push of the same run before it.
C9_PushBeforeSync ==
  run.proc = "runVersion" =>
    /\ \A i, j \in 1..Len(calls) : i < j => Rank(calls[i].op) < Rank(calls[j].op)
    /\ \A j \in CallsOf(ReleaseOps \cup PullOps) :
         \E i \in 1..j - 1 : calls[i].op = "push"

C9_Witness ==
  /\ pc = "v_done"
  /\ CallsOf({"push"}) # {}
  /\ CallsOf(ReleaseOps) # {}
  /\ CallsOf(PullOps) # {}

\* C10: decoding the text createPullFrontmatter returns gives back the
\* frontmatter that was encoded.
C10_RoundTrip ==
  fmPc = "done" =>
    fmOut = <<[draftId |-> <<fmIn.draftId>>, checksum |-> <<fmIn.checksum>>]>>

\* The deletion of a changeset file lies in the history fetched so far.
DeletionFetched == run.clone.del \in 1..run.clone.fetched

\* C11: the locator returns none only on a clone that holds the full
\* history in which the query finds no commit; a commit the query finds in
\* the history fetched so far is returned; the clone is deepened only while
\* it is shallow, so a full clone with no such commit gives none with no
\* deepening call.
C11_NoneOnlyWhenFull ==
  [][/\ (pc = "p_shallow" /\ pc' = "p_done") =>
          /\ run.clone.fetched = run.clone.total
          /\ ~DeletionFetched
          /\ run'.commit = <<>>
          /\ run'.deepened = run.deepened
     /\ (pc = "p_log" /\ DeletionFetched) =>
          /\ pc' = "p_list"
          /\ run'.commit = <<run.clone.del>>
     /\ (pc = "p_shallow" /\ run.clone.fetched = run.clone.total) =>
          pc' = "p_done"
     /\ run'.deepened # run.deepened =>
          /\ run.clone.fetched < run.clone.total
          /\ ~DeletionFetched]_vars

C11_Witness ==
  /\ pc = "p_done"
  /\ run.commit = <<>>
  /\ run.clone.total = HistoryLen
  /\ run.deepened = 0

\* How far back the deletion may lie.
DeletionPlaces == {c.del : c \in LocatorClones} \ {0}

\* C12: the loop of the locator ends, and a deletion that lies outside the
\* history fetched at first is returned in the end.
C12_LocatorReturns ==
  /\ (pc \in {"p_log", "p_shallow", "p_deepen"}) ~> (pc \in {"p_list", "p_done"})
  /\ \A d \in DeletionPlaces :
       (pc = "p_log" /\ run.clone.del = d /\ run.clone.fetched < d)
         ~> (pc = "p_list" /\ run.commit = <<d>>)

C12_Witness ==
  /\ pc = "p_list"
  /\ run.deepened > 1
  /\ run.commit = <<run.clone.del>>

\* The packages the New tag lines of an output name, in the order of the
\* lines, as a reader of the output lists them.
NamedPackages(stdout) ==
  CASE stdout = StdoutNone -> <<>>
    [] stdout = StdoutBoth -> <<PkgA, PkgB>>
    [] stdout = StdoutTwice -> <<PkgA, PkgA>>
    [] stdout = StdoutUnknown -> <<PkgA, [name |-> <<"x">>,
                                          version |-> <<"1", ".", "0", ".", "0">>]>>

NamesUnknown(stdout, packages) ==
  \E i \in 1..Len(NamedPackages(stdout)) :
    \A k \in 1..Len(packages) : packages[k].name # NamedPackages(stdout)[i].name

\* runPublish in a workspace of many packages is past the matcher.
PastMatcher ==
  /\ run.proc = "runPublish"
  /\ run.tool \notin {"none", "root"}
  /\ pc # "p_match"

\* C13: in a workspace of many packages the released packages are the
\* packages the New tag lines name, in the order of the output and as often
\* as they are named; an output that names a package the workspace does
\* not have makes the run fail with no release promoted and no result.
C13_ReleasedAsNamed ==
  PastMatcher =>
    IF NamesUnknown(run.stdout, run.packages)
    THEN /\ pc = "failed"
         /\ run.result = <<>>
         /\ CallsOf(ReleaseOps) = {}
    ELSE /\ run.releasedPackages = NamedPackages(run.stdout)
         /\ pc = "p_returned" =>
              run.result = <<[published |-> NamedPackages(run.stdout) # <<>>,
                              publishedPackages |-> NamedPackages(run.stdout)]>>

C13_Witness ==
  /\ PastMatcher
  /\ pc = "p_returned"
  /\ run.releasedPackages = <<PkgA, PkgA>>

C13_WitnessUnknown ==
  /\ PastMatcher
  /\ pc = "failed"
  /\ run.stdout = StdoutUnknown

\* runPublish in a root workspace is past the test of the packages and
\* the scan of the output.
PastRootScan ==
  /\ run.proc = "runPublish"
  /\ run.tool = "root"
  /\ pc # "p_root"

\* C14 as stated: in a root workspace a number of packages other than one
\* makes runPublish fail before it scans the output or creates a release.
C14_ExactlyOnePackage ==
  (PastRootScan /\ Len(run.packages) # 1) =>
    /\ pc = "failed"
    /\ run.releasedPackages = <<>>
    /\ CallsOf(ReleaseOps) = {}

\* C14 as the code has it: a root workspace with no package makes
\* runPublish fail before it scans the output or creates a release; with
\* one package or more the run goes on with the first package, which is
\* the one released when the output has the marker.
C14_AtLeastOnePackage ==
  PastRootScan =>
    IF Len(run.packages) = 0
    THEN /\ pc = "failed"
         /\ run.releasedPackages = <<>>
         /\ CallsOf(ReleaseOps) = {}
    ELSE run.releasedPackages =
           IF run.stdout = StdoutNone THEN <<>> ELSE <<run.packages[1]>>

C14_Witness ==
  /\ PastRootScan
  /\ Len(run.packages) = 2
  /\ pc = "p_returned"
  /\ run.result = <<[published |-> TRUE, publishedPackages |-> <<PkgA>>]>>
  /\ CallsOf({"createRelease"}) # {}

\* runPublish in a root workspace that has a package has returned.
RootReturned ==
  /\ PastRootScan
  /\ Len(run.packages) >= 1
  /\ pc = "p_returned"

\* The run has created one release and made no other call on a release:
\* a published one with the tag of the version in the manifest.
OneReleaseCreated ==
  /\ Cardinality(CallsOf(ReleaseOps)) = 1
  /\ Len(releases) = run.before.releases + 1
  /\ \E i \in 1..Len(calls) :
       calls[i] = Call("createRelease", releases[Len(releases)].id)
  /\ ~releases[Len(releases)].draft
  /\ releases[Len(releases)].tag_name = <<"v">> \o run.packages[1].version

NoReleaseCreated ==
  /\ CallsOf(ReleaseOps) = {}
  /\ Len(releases) = run.before.releases

OnePackageReported ==
  run.result = <<[published |-> TRUE, publishedPackages |-> <<run.packages[1]>>]>>

NothingReported ==
  /\ run.result[1].published = FALSE
  /\ NoReleaseCreated

\* C15 as stated: in a root workspace an output with the marker makes
\* runPublish create one published release with the tag of the manifest
\* version and report one released package; an output without it makes
\* runPublish create no release and report published = false.
C15_OneReleaseAction ==
  RootReturned =>
    IF run.stdout = StdoutNone THEN NothingReported
    ELSE OneReleaseCreated /\ OnePackageReported

\* C15 as the code has it: an output with the marker makes runPublish
\* attempt one release, on the first line that has it, and report one
\* released package; the release is created, published and with the tag of
\* the manifest version, when the changelog of the package has the entry
\* of the version, and no release is created when the package has no
\* changelog file; an output without the marker makes runPublish create no
\* release and report published = false.
C15_AtMostOneRelease ==
  /\ (PastRootScan /\ run.proc = "runPublish") =>
       Cardinality(CallsOf(ReleaseOps)) <= 1
  /\ RootReturned =>
       IF run.stdout = StdoutNone THEN NothingReported
       ELSE /\ OnePackageReported
            /\ run.pkgChangelog \in {"ENOENT", "entry"}
            /\ run.pkgChangelog = "entry" => OneReleaseCreated
            /\ run.pkgChangelog = "ENOENT" => NoReleaseCreated

C15_Witness ==
  /\ RootReturned
  /\ run.stdout = StdoutBoth
  /\ run.pkgChangelog = "ENOENT"
  /\ OnePackageReported
  /\ NoReleaseCreated

\* The pull requests of the list that have a merge timestamp.
MergedOf(ps) == {i \in 1..Len(ps) : ps[i].merged_at # <<>>}

\* The selected pull request is one of the list, and when some pull
\* request of the list was merged it is a merged one that no other was
\* merged before.
EarliestMerged(ps, sel) ==
  /\ sel # <<>>
  /\ \E i \in 1..Len(ps) : ps[i] = sel[1]
  /\ MergedOf(ps) # {} =>
       /\ sel[1].merged_at # <<>>
       /\ \A i \in MergedOf(ps) : sel[1].merged_at[1] <= ps[i].merged_at[1]

\* C16: of the pull requests the host returns for the located commit,
\* runPublish selects none when the list is empty, else the one merged
\* earliest among the merged ones, and one that was not merged only when
\* none of the list was merged.
C16_SelectsEarliestMerged ==
  pc = "p_promote" =>
    IF run.associated = <<>> THEN run.pull = <<>>
    ELSE EarliestMerged(run.associated, run.pull)

C16_Witness ==
  /\ pc = "p_promote"
  /\ Len(run.associated) = 2
  /\ run.associated[1].merged_at = <<>>
  /\ run.associated[2].merged_at = <<2>>
  /\ run.pull = <<run.associated[2]>>

\* No line of the changelog starts with ## and a digit.
NoVersionHeader(doc) ==
  \A i \in 1..Len(doc) :
    (At(doc, i, <<"#", "#", " ">>) /\ (i = 1 \/ doc[i - 1] = "\n")) =>
      (i + 3 > Len(doc) \/ ~IsDigit(doc[i + 3]))

\* runVersion has read a changelog with no version header.
ReadHeaderless ==
  /\ run.proc = "runVersion"
  /\ pc \notin {"v_switch", "v_reset", "v_bump", "v_search", "v_changelog"}
  /\ NoVersionHeader(ChangelogAt(run.sha))

\* C17: a runVersion whose changelog has no version header fails when it
\* reads it and makes no commit, no push, no release call and no pull
\* request call.
C17_HeaderlessAborts ==
  ReadHeaderless =>
    /\ pc = "failed"
    /\ CallsOf({"commit", "push"} \cup ReleaseOps \cup PullOps) = {}
    /\ ~run.committed
    /\ Len(releases) = run.before.releases
    /\ Len(pulls) = run.before.pulls

C17_Witness ==
  /\ ReadHeaderless
  /\ pc = "failed"
  /\ run.items # <<>>
  /\ CallsOf({"bump"}) # {}

\* runVersion found an open pull request whose frontmatter is absent or
\* incomplete and is past the test of it.
FoundUntracked ==
  /\ pc \in {"v_pr_update", "v_done"}
  /\ FoundOpenPull
  /\ Incomplete(FoundFrontmatter)

\* C18: a runVersion that finds an open pull request with no frontmatter,
\* or one that lacks draftId or checksum, fetches, creates and updates no
\* release, and the body it writes to the pull request has no frontmatter
\* block: the pull request tracks no release after the run.
C18_UntrackedStaysUntracked ==
  FoundUntracked =>
    /\ run.draftRelease = <<>>
    /\ CallsOf(ReleaseOps) = {}
    /\ releases = SubSeq(releases, 1, run.before.releases)
    /\ getPullFrontmatterData(run.prBody) = <<>>
    /\ pc = "v_done" =>
         /\ CallsOf({"updatePull"}) # {}
         /\ getPullFrontmatterData(FoundPull.body) = <<>>

C18_Witness ==
  /\ FoundUntracked
  /\ pc = "v_done"
  /\ FoundFrontmatter # <<>>
  /\ getPullFrontmatterData(FoundPull.body) = <<>>

\* A runVersion later than the one that saw a drift has found the same
\* open pull request and is past the comparison of the hashes.
RerunAfterDrift ==
  /\ last.drift # <<>>
  /\ budget.runs < last.drift[1].runs
  /\ pc \in {"v_pr_update", "v_done"}
  /\ FoundOpenPull
  /\ run.items[1].number = last.drift[1].number

\* The run read the pair the drift was seen with, found the hashes to
\* differ again, and left the release and the pair as they were.
DriftSeenAgain(fm, seen) ==
  /\ Drifted(fm)
  /\ fm[1].draftId[1] = seen.draftId
  /\ fm[1].checksum[1] = seen.checksum
  /\ ReleaseKept(fm)
  /\ TrackedRelease(fm).body = seen.release.body
  /\ TrackedRelease(fm).name = seen.release.name
  /\ TrackedRelease(fm).tag_name = seen.release.tag_name
  /\ pc = "v_done" => PairKept(fm)

\* C19: after a runVersion has found the hash of the release to differ
\* from the stored checksum, every later runVersion on the same open pull
\* request, while nobody else has changed the release or the pull request,
\* finds them to differ again and leaves the release and the stored pair
\* as they were.
C19_DriftStable ==
  RerunAfterDrift => DriftSeenAgain(FoundFrontmatter, last.drift[1])

C19_Witness ==
  /\ RerunAfterDrift
  /\ pc = "v_done"
  /\ TrackedRelease(FoundFrontmatter).body # run.entry[1].content

\* runPublish has not come to the end of the matcher: of the workspace of
\* many packages or of the root workspace.
BeforeMatcherEnd ==
  /\ run.proc = "runPublish"
  /\ pc \in {"p_exec", "p_tags", "p_packages", "p_match", "p_root"}

\* runPublish failed in the matcher: a name the workspace does not have,
\* or a root workspace with no package.
FailedInMatcher ==
  /\ run.proc = "runPublish"
  /\ pc = "failed"
  /\ \/ run.tool = "root" /\ run.packages = <<>>
     \/ run.tool \notin {"none", "root"} /\ NamesUnknown(run.stdout, run.packages)

\* C20 as stated: the tags are pushed after the matcher has completed, so
\* no tag is pushed while the matcher has not, and a run that failed in
\* the matcher has pushed none.
C20_TagsAfterMatcher ==
  (BeforeMatcherEnd \/ FailedInMatcher) => CallsOf({"pushTags"}) = {}

\* C20 as the code has it: runPublish runs the publish command, then
\* pushes the tags, then reads the packages and runs the matcher; the tags
\* are pushed before the matcher starts, so a run that fails in the matcher
\* has pushed them.
C20_TagsBeforeMatcher ==
  run.proc = "runPublish" =>
    /\ pc = "p_exec" => calls = <<>>
    /\ pc = "p_tags" => calls = <<Call("publish", 0)>>
    /\ pc \notin {"p_exec", "p_tags"} =>
         /\ Len(calls) >= 2
         /\ calls[1] = Call("publish", 0)
         /\ calls[2] = Call("pushTags", 0)
         /\ remote.tags
    /\ run.tool = "none" <=> pc \in {"p_exec", "p_tags", "p_packages"}

C20_Witness ==
  /\ FailedInMatcher
  /\ run.tool # "root"
  /\ CallsOf({"pushTags"}) # {}
  /\ remote.tags

====
